---- MODULE Spec2Model ----
\* Model of the trilateration coordination server (src/server/server.go):
\* the node registry `nodes`, its RWMutex `nodesMutex`, the target position
\* `phonePosition`, the `calibration` table, one goroutine per websocket
\* connection (wsHandler + handleMessages + updatePhonePosition) and the HTTP
\* handlers (/set-node-position, /calibrate, /visualization, status log).
\*
\* Floating point values are fixed point integers: one unit is 1/Scale.
EXTENDS Integers, Sequences, FiniteSets, TLC

\* ------------------------------------------------------------------ bounds

\* A run of the service is explored within a scope: the goroutines that run,
\* the kinds of frame the anchors send, the number of frames read over all
\* connections together, and the number of administrative HTTP requests.

\* Scope "sessions": two connections from one host, every kind of frame, the
\* administrative requests and both readers.
SessionFrames == 1
SessionRequests == 1
\* Scope "solve": three hosts that report distances and positions, the solver
\* and the visualization reader.
SolveFrames == 4

\* ------------------------------------------------------------- fixed point

Scale == 1000

Abs(x) == IF x < 0 THEN -x ELSE x

\* Go's float division, truncated towards zero on the fixed point grid.
Quot(a, b) == IF (a < 0) = (b < 0) THEN Abs(a) \div Abs(b) ELSE -(Abs(a) \div Abs(b))

RECURSIVE SqrtFrom(_, _)
SqrtFrom(n, r) == IF r <= n \div r THEN r ELSE SqrtFrom(n, (r + n \div r) \div 2)

\* math.Sqrt on the fixed point grid: the floor of the square root, by
\* Newton's iteration from above.
Sqrt(n) == IF n <= 0 THEN 0 ELSE SqrtFrom(n, n)

\* A float64 keeps 53 significant bits of a sum; the model keeps MantissaBits.
MantissaBits == 12

RECURSIVE Pow2(_)
Pow2(k) == IF k = 0 THEN 1 ELSE 2 * Pow2(k - 1)

RECURSIVE BitLength(_)
BitLength(a) == IF a = 0 THEN 0 ELSE 1 + BitLength(a \div 2)

\* Rounding to MantissaBits significant bits, to nearest, ties to even.
FRound(v) ==
  LET a == Abs(v)
  IN IF a < Pow2(MantissaBits) THEN v
     ELSE LET step == Pow2(BitLength(a) - MantissaBits)
              q == a \div step
              r == a % step
              up == 2 * r > step \/ (2 * r = step /\ q % 2 = 1)
              m == (IF up THEN q + 1 ELSE q) * step
          IN IF v >= 0 THEN m ELSE -m

\* The float64 sum a + b.
FAdd(a, b) == FRound(a + b)

\* ------------------------------------------------------------------- types

Origin == [X |-> 0, Y |-> 0, Z |-> 0]

NoConn == "nil"

\* The websocket connections the service accepts.
Conns == {"c1", "c2", "c3", "c4"}

\* The anchor device each connection comes from: c1 and c2 are two connections
\* of device A.
Device == [c \in Conns |-> CASE c \in {"c1", "c2"} -> "A" [] c = "c3" -> "B" [] c = "c4" -> "C"]

\* The address of each device (its hardware identity as the service sees it),
\* one character per element: two IPv4 hosts and an IPv6 host.
DeviceIP ==
  [d \in {"A", "B", "C"} |->
     CASE d = "A" -> <<"1","0",".","0",".","0",".","1">>
       [] d = "B" -> <<"1","0",".","0",".","0",".","2">>
       [] d = "C" -> <<"[",":",":","1","]">>]

\* The ephemeral port of each connection.
Port == [c \in Conns |-> IF c = "c2" THEN <<"5","0","2">> ELSE <<"5","0","1">>]

\* r.RemoteAddr of each connection: host:port.
RemoteAddr == [c \in Conns |-> DeviceIP[Device[c]] \o <<":">> \o Port[c]]

\* strings.LastIndex, 1-based; 0 when the character does not occur.
LastIndex(s, ch) ==
  LET I == {i \in 1..Len(s) : s[i] = ch}
  IN IF I = {} THEN 0 ELSE CHOOSE i \in I : \A j \in I : j <= i

\* strings.ReplaceAll for a one character pattern.
ReplaceAll(s, old, new) == [i \in 1..Len(s) |-> IF s[i] = old THEN new ELSE s[i]]

\* The whole remote address, port included.
ipAddressWithPort(remoteAddr) == remoteAddr

\* remoteAddr[:strings.LastIndex(remoteAddr, ":")]
ipAddress(remoteAddr) == SubSeq(remoteAddr, 1, LastIndex(remoteAddr, ":") - 1)

cleanIP(remoteAddr) == ReplaceAll(ReplaceAll(ipAddress(remoteAddr), ".", "_"), ":", "_")

\* An id made of the port of the remote address instead of its host.
tempIDOfPort(remoteAddr) ==
  <<"E","S","P","_">> \o SubSeq(remoteAddr, LastIndex(remoteAddr, ":") + 1, Len(remoteAddr))

\* fmt.Sprintf("ESP_%s", cleanIP)
tempID(remoteAddr) == <<"E","S","P","_">> \o cleanIP(remoteAddr)

\* --------------------------------------------------------- position solver

maxIterations == 100

\* learningRate := 0.1
learningRate == Scale \div 10

\* gradientMagnitude < convergenceThreshold, with convergenceThreshold := 0.001
Converged(gradientMagnitude) == gradientMagnitude * 1000 < Scale

\* A gradient term that pushes the candidate along every axis when the
\* candidate coincides with the node.
NodeGradientPushes(node, position) ==
  LET dx == position.X - node.Position.X
      dy == position.Y - node.Position.Y
      dz == position.Z - node.Position.Z
      calculatedDistance == Sqrt(dx * dx + dy * dy + dz * dz)
      error == calculatedDistance - node.Distance
  IN IF calculatedDistance > 0
     THEN [X |-> Quot(2 * error * dx, calculatedDistance),
           Y |-> Quot(2 * error * dy, calculatedDistance),
           Z |-> Quot(2 * error * dz, calculatedDistance)]
     ELSE [X |-> 2 * error, Y |-> 2 * error, Z |-> 2 * error]

\* One node's contribution to the gradient (the body of the inner loop).
NodeGradient(node, position) ==
  LET dx == position.X - node.Position.X
      dy == position.Y - node.Position.Y
      dz == position.Z - node.Position.Z
      calculatedDistance == Sqrt(dx * dx + dy * dy + dz * dz)
      error == calculatedDistance - node.Distance
  IN IF calculatedDistance > 0
     THEN [X |-> Quot(2 * error * dx, calculatedDistance),
           Y |-> Quot(2 * error * dy, calculatedDistance),
           Z |-> Quot(2 * error * dz, calculatedDistance)]
     ELSE Origin

\* The inner loop (lines 304-321): the gradient summed over the first k nodes
\* in slice order.
RECURSIVE Gradient(_, _, _)
Gradient(ns, position, k) ==
  IF k = 0 THEN Origin
  ELSE LET g == Gradient(ns, position, k - 1)
           n == NodeGradient(ns[k], position)
       IN [X |-> FAdd(g.X, n.X), Y |-> FAdd(g.Y, n.Y), Z |-> FAdd(g.Z, n.Z)]

\* One pass of the outer loop (lines 300-333): the position after the update
\* and whether the loop breaks.
Iterate(ns, position) ==
  LET gradient == Gradient(ns, position, Len(ns))
      gradientMagnitude ==
        Sqrt(gradient.X * gradient.X + gradient.Y * gradient.Y
             + gradient.Z * gradient.Z)
  IN [position |-> [X |-> position.X - Quot(learningRate * gradient.X, Scale),
                    Y |-> position.Y - Quot(learningRate * gradient.Y, Scale),
                    Z |-> position.Z - Quot(learningRate * gradient.Z, Scale)],
      break |-> Converged(gradientMagnitude)]

\* The next n passes of the outer loop (lines 299-339), stopping at a break;
\* `passes` counts the passes made. (The passes are split in halves to keep
\* the evaluation shallow.)
RECURSIVE Descend(_, _, _)
Descend(ns, at, n) ==
  IF at.break \/ n = 0 THEN at
  ELSE IF n = 1
       THEN LET next == Iterate(ns, at.position)
            IN [position |-> next.position, break |-> next.break,
                passes |-> at.passes + 1]
  ELSE Descend(ns, Descend(ns, at, n \div 2), n - n \div 2)

\* A loop that stops after its first pass.
DescentOnePass(ns, initialGuess) ==
  Descend(ns, [position |-> initialGuess, break |-> FALSE, passes |-> 0], 1)

\* The loop of lines 299-339 from initialGuess, at most maxIterations passes.
Descent(ns, initialGuess) ==
  Descend(ns, [position |-> initialGuess, break |-> FALSE, passes |-> 0], maxIterations)

\* Lines 291-342: gradient descent from initialGuess; the last candidate is returned.
trilateratePosition(ns, initialGuess) == Descent(ns, initialGuess).position

\* ------------------------------------------------------------------ inputs

NoProc == "none"
NoId == <<>>

\* The goroutines: one per websocket connection, one serving administrative
\* HTTP requests, one serving GET /visualization, and the status logger.
Procs == Conns \cup {"admin", "viz", "status"}

\* A structured or plain text frame as handleMessages decodes it; node_id is
\* NoId when the frame has no such field.
Frame(type, rssi, distance, pos) ==
  [type |-> type, node_id |-> NoId, rssi |-> rssi, distance |-> distance, pos |-> pos]

\* The id frames name in their node_id field: the one assigned to device B.
NamedId == tempID(RemoteAddr["c3"])

\* The frame with "node_id": id added.
Named(frame, id) == [frame EXCEPT !.node_id = id]

NoMsg == Frame("none", 0, 0, Origin)

\* The position an anchor or the operator reports.
PosInput == [X |-> 4 * Scale, Y |-> 3 * Scale, Z |-> 0]

\* {"type":"distance","node_id":..,"rssi":..,"distance":..}; the last one
\* carries no node_id and no distance.
Reports ==
  {Named(Frame("distance", -50, 2 * Scale, Origin), NamedId),
   Frame("distance", -90, 0, Origin)}

\* {"type":"position","node_id":..,"X":..,"Y":..,"Z":..}
PositionFrame == Named(Frame("position", 0, 0, PosInput), NamedId)

\* Every frame an anchor may send: distance reports, a position report, a
\* position report whose coordinates do not decode, a calibration report, a
\* structured frame of another type, the legacy PING and REGISTER, and text
\* that is neither JSON nor a legacy frame.
Frames ==
  Reports \cup
  {PositionFrame,
   Frame("position_undecodable", 0, 0, Origin),
   Frame("calibration", 0, 0, Origin),
   Frame("rssi_report", -60, 0, Origin),
   Frame("PING", 0, 0, Origin),
   Frame("REGISTER", 0, 0, Origin),
   Frame("text", 0, 0, Origin)}

\* The calibration pair the operator posts to /calibrate.
CalInput == [RSSIAt1m |-> -55 * Scale, PathLoss |-> 3 * Scale]

\* The node_id values of administrative requests: every id the service can
\* assign, and one it never assigns.
UnknownId == <<"E","S","P","_","x">>
AdminIds(conns) == {tempID(RemoteAddr[c]) : c \in conns} \cup {UnknownId}

\* What the solver reads of a node.
SolverView(node) == [Position |-> node.Position, Distance |-> node.Distance]

\* trilateratePosition from the origin for the node positions and distances
\* the inputs above can produce (three valid nodes): the value `solved` holds.
SolveTable ==
  [ns \in [1..3 -> [Position : {Origin, PosInput},
                    Distance : {f.distance : f \in {r \in Reports : r.distance > 0}}]]
     |-> trilateratePosition(ns, Origin)]

\* ------------------------------------------------------------ signal model

\* The float64 values math.Pow(10, x) takes: NaN, +Inf, 0, and the positive
\* number 10^(num/den), den > 0, kept by its exponent.
NaN == [kind |-> "NaN", num |-> 0, den |-> 1]
PosInf == [kind |-> "Inf", num |-> 0, den |-> 1]
Zero == [kind |-> "Zero", num |-> 0, den |-> 1]
Pow10(num, den) == [kind |-> "Pos", num |-> num, den |-> den]

\* math.Pow(10, num / den) in float64: num / 0 is NaN, +Inf or -Inf, and
\* Pow(10, NaN) = NaN, Pow(10, +Inf) = +Inf, Pow(10, -Inf) = 0.
PowOfQuotient(num, den) ==
  CASE den = 0 /\ num = 0 -> NaN
    [] den = 0 /\ num > 0 -> PosInf
    [] den = 0 /\ num < 0 -> Zero
    [] den > 0 -> Pow10(num, den)
    [] OTHER -> Pow10(-num, -den)

\* Lines 251-258: params := calibration[nodeID], calibration["default"] when
\* there is none; math.Pow(10, (params.RSSIAt1m - float64(rssi)) / (10 * params.PathLoss))
calculateDistanceFromRSSI(table, rssi, id) ==
  LET params == IF id \in DOMAIN table THEN table[id] ELSE table[<<"d","e","f","a","u","l","t">>]
  IN PowOfQuotient(params.RSSIAt1m - rssi * Scale, 10 * params.PathLoss)

\* The float64 comparisons v > 0 and a < b.
IsPositive(v) == v.kind \in {"Pos", "Inf"}
Rank(v) == CASE v.kind = "Zero" -> 0 [] v.kind = "Pos" -> 1 [] OTHER -> 2
IsLess(a, b) ==
  /\ a.kind # "NaN"
  /\ b.kind # "NaN"
  /\ IF a.kind = "Pos" /\ b.kind = "Pos"
     THEN a.num * b.den < b.num * a.den
     ELSE Rank(a) < Rank(b)

\* ------------------------------------------------------------- trial inputs

Point(x, y, z) == [X |-> x * Scale, Y |-> y * Scale, Z |-> z * Scale]

\* The distance between two points, as an anchor that measures without noise
\* reports it.
ExactDistance(a, b) ==
  Sqrt((a.X - b.X) * (a.X - b.X) + (a.Y - b.Y) * (a.Y - b.Y) + (a.Z - b.Z) * (a.Z - b.Z))

\* Anchor layouts: the example's, one with no anchor at the origin, and the
\* layout of anchors whose position was never set.
ExampleLayout == <<Point(0, 0, 0), Point(4, 0, 0), Point(0, 4, 0)>>
SkewLayout == <<Point(-2, -2, 0), Point(-4, -4, 0), Point(-2, 8, 0)>>
DefaultLayout == <<Origin, Origin, Origin>>

\* True target positions: the example's, two more in the anchors' plane, and
\* one above it.
ExampleTarget == Point(2, 1, 0)
Targets == {ExampleTarget, Point(1, 1, 0), Point(3, 3, 0), Point(2, 1, 1)}

\* What the solver is given: positions and distances, in registry order.
Anchors(layout, distances) ==
  [i \in 1..Len(layout) |-> [Position |-> layout[i], Distance |-> distances[i]]]
ExactAnchors(layout, target) ==
  Anchors(layout, [i \in 1..Len(layout) |-> ExactDistance(layout[i], target)])

\* The anchor sets tried: exact distances to each target, and every anchor
\* reporting 2 m.
ExactInputs == {ExactAnchors(ExampleLayout, t) : t \in Targets}
ReportedInputs ==
  {Anchors(l, [i \in 1..3 |-> 2 * Scale]) : l \in {SkewLayout, DefaultLayout}}

\* The calibration pairs an operator may post (nothing is validated, lines
\* 363-369) and the RSSI values tried.
CalInputs ==
  [RSSIAt1m : {-65 * Scale, -55 * Scale}, PathLoss : {-2 * Scale, 0, 2 * Scale, 3 * Scale}]
RSSIs == {-90, -65, -55, -40}

\* One run of updatePhonePosition: the order the registry was enumerated in,
\* the position written, the passes the solver made and whether it broke out.
NoAttempt == [done |-> FALSE, order |-> <<>>, position |-> Origin, passes |-> 0, break |-> FALSE]

NoTrial ==
  [fn |-> "none", anchors |-> <<>>, first |-> NoAttempt, second |-> NoAttempt,
   params |-> [RSSIAt1m |-> 0, PathLoss |-> 0], rssi |-> 0, distances |-> <<>>]

SolveTrials == {[NoTrial EXCEPT !.fn = "solve", !.anchors = a] : a \in ExactInputs \cup ReportedInputs}
DistanceTrials ==
  {[NoTrial EXCEPT !.fn = "distance", !.params = p, !.rssi = r] : p \in CalInputs, r \in RSSIs}

\* ------------------------------------------------------------------- state

VARIABLES
  nodes,          \* map[string]*Node
  nodesMutex,     \* sync.RWMutex: the writer holding it and the readers holding it
  phonePosition,  \* the target's position
  calibration,    \* map[string]CalibrationParams
  pc,             \* where each goroutine is
  nodeID,         \* wsHandler's tempID / handleMessages' nodeID, per connection
  closed,         \* whether Close() was called on the connection
  nread,          \* frames read from each connection so far
  msg,            \* the frame each connection handler read last
  validNodes,     \* updatePhonePosition's validNodes, per connection handler
  position,       \* updatePhonePosition's position (the solver's result)
  input,          \* the decoded body of the administrative request being served
  requests,       \* administrative requests served so far
  scope,          \* the scope of the run (never changes)
  solved,         \* the solver's results, computed once (never changes)
  trial,          \* the function under trial, its inputs and its results
  sent,           \* the frames written to each connection, in order
  response        \* the status of the last administrative response (0: none yet)

vars == <<nodes, nodesMutex, phonePosition, calibration, pc, nodeID, closed,
          nread, msg, validNodes, position, input, requests, scope, solved,
          trial, sent, response>>

Scopes ==
  {[procs |-> {"c1", "c2", "admin", "viz", "status"}, kinds |-> Frames,
    frames |-> SessionFrames, requests |-> SessionRequests],
   [procs |-> {"c1", "c3", "c4", "viz"},
    kinds |-> Reports \cup {PositionFrame},
    frames |-> SolveFrames, requests |-> 0]}

\* The key "default" of the calibration table.
DefaultKey == <<"d","e","f","a","u","l","t">>

\* Lines 73-75: "default": {RSSIAt1m: -60.0, PathLoss: 2.0}
DefaultParams == [RSSIAt1m |-> -60 * Scale, PathLoss |-> 2 * Scale]

\* The decoded body of an administrative request and the path it was posted
\* to; NoInput when nothing was decoded.
NoInput == [Path |-> "none", NodeID |-> NoId, Position |-> Origin]

Init ==
  /\ nodes = <<>>
  /\ nodesMutex = [writer |-> NoProc, readers |-> {}]
  /\ phonePosition = Origin
  /\ calibration = [id \in {DefaultKey} |-> DefaultParams]
  /\ pc = [p \in Procs |-> IF p \in Conns THEN "start" ELSE "idle"]
  /\ nodeID = [c \in Conns |-> NoId]
  /\ closed = [c \in Conns |-> FALSE]
  /\ nread = [c \in Conns |-> 0]
  /\ msg = [c \in Conns |-> NoMsg]
  /\ validNodes = [c \in Conns |-> <<>>]
  /\ position = [c \in Conns |-> Origin]
  /\ input = NoInput
  /\ requests = 0
  /\ scope \in Scopes
  /\ solved = SolveTable
  /\ trial = NoTrial
  /\ sent = [c \in Conns |-> <<>>]
  /\ response = 0

\* ---------------------------------------------------------------- RWMutex

\* A Lock() that does not wait for the readers.
CanLockDespiteReaders == nodesMutex.writer = NoProc

\* nodesMutex.Lock() can return: nobody holds the mutex.
CanLock == nodesMutex.writer = NoProc /\ nodesMutex.readers = {}

\* nodesMutex.RLock() can return: no writer holds the mutex.
CanRLock == nodesMutex.writer = NoProc

Locked(p) == [nodesMutex EXCEPT !.writer = p]
Unlocked == [nodesMutex EXCEPT !.writer = NoProc]
\* An RLock() that is not taken.
RLockSkipped(p) == nodesMutex

RLocked(p) == [nodesMutex EXCEPT !.readers = @ \cup {p}]
RUnlocked(p) == [nodesMutex EXCEPT !.readers = @ \ {p}]

\* nodes[id] = node
Store(id, node) == [k \in DOMAIN nodes \cup {id} |-> IF k = id THEN node ELSE nodes[k]]

\* time.Now() as handler c reads it: distinct for every frame of every connection.
Now(c) == <<c, nread[c]>>

Goto(p, label) == pc' = [pc EXCEPT ![p] = label]

RECURSIVE SumOver(_, _)
SumOver(f, S) == IF S = {} THEN 0 ELSE LET x == CHOOSE x \in S : TRUE IN f[x] + SumOver(f, S \ {x})

FramesRead == SumOver(nread, Conns)

\* A critical section that writes one word of the registry is one step:
\* Lock(), the write, Unlock(), enabled when the mutex can be locked. A section
\* that writes several words (RSSI and Distance, the three words of a Position)
\* is two steps with the mutex held by the writer in between. The RLock()
\* sections are held across steps.

\* An outbound frame that is not written.
SendNothing(c) == sent

\* "ID:"+nodeID (lines 168 and 241)
IDFrame(id) == <<"I","D",":">> \o id

\* "PONG" (line 235)
PONGFrame == <<"P","O","N","G">>

\* Lines 168 and 241: conn.WriteMessage(websocket.TextMessage, "ID:"+nodeID)
SendID(c) == [sent EXCEPT ![c] = Append(@, IDFrame(nodeID[c]))]

\* A liveness reply that is written twice.
SendPONGTwice(c) == [sent EXCEPT ![c] = Append(Append(@, PONGFrame), PONGFrame)]

\* Line 235: conn.WriteMessage(messageType, "PONG")
SendPONG(c) == [sent EXCEPT ![c] = Append(@, PONGFrame)]

\* ------------------------------------------------- wsHandler (lines 79-131)

\* Lines 94-98: upgrader.Upgrade fails: the handler returns before it touches
\* the registry.
wsUpgradeError(c) ==
  /\ pc[c] = "start"
  /\ c \in scope.procs
  /\ Goto(c, "done")
  /\ UNCHANGED <<nodes, nodesMutex, phonePosition, calibration, nodeID, closed,
                 nread, msg, validNodes, position, input, requests, scope, solved, trial,
                 sent, response>>

\* Lines 108-114: the Node wsHandler builds for a new connection.
newNode(c) ==
  [ID |-> tempID(RemoteAddr[c]), Conn |-> c, Position |-> Origin,
   Distance |-> 0, RSSI |-> 0, LastSeen |-> Now(c)]

\* A registration that also drops the calibration pair stored for the id.
wsHandlerResetsCalibration(c) ==
  /\ pc[c] = "start"
  /\ c \in scope.procs
  /\ CanLock
  /\ nodes' = Store(tempID(RemoteAddr[c]), newNode(c))
  /\ calibration' = [k \in DOMAIN calibration \ {tempID(RemoteAddr[c])} |-> calibration[k]]
  /\ nodeID' = [nodeID EXCEPT ![c] = tempID(RemoteAddr[c])]
  /\ Goto(c, "hm_lock")
  /\ UNCHANGED <<nodesMutex, phonePosition, closed, nread, msg,
                 validNodes, position, input, requests, scope, solved, trial,
                 sent, response>>

\* Lines 100-130: nodesMutex.Lock(); nodes[tempID] = newNode; nodesMutex.Unlock();
\* handleMessages(conn, tempID)
wsHandler(c) ==
  /\ pc[c] = "start"
  /\ c \in scope.procs
  /\ CanLock
  /\ nodes' = Store(tempID(RemoteAddr[c]), newNode(c))
  /\ nodeID' = [nodeID EXCEPT ![c] = tempID(RemoteAddr[c])]
  /\ Goto(c, "hm_lock")
  /\ UNCHANGED <<nodesMutex, phonePosition, calibration, closed, nread, msg,
                 validNodes, position, input, requests, scope, solved, trial,
                 sent, response>>

\* -------------------------------------------- handleMessages (lines 133-248)

\* Lines 135-145: the reconnect check. existingNode.Conn.Close() on a nil Conn
\* dereferences nil: the goroutine panics with the mutex held and before the
\* deferred cleanup is registered.
\* Lines 164-172: conn.WriteMessage("ID:"+nodeID). The write fails on a closed
\* connection and may fail on an open one (the peer is gone); on failure the
\* handler returns and the deferred function starts with conn.Close() (line 149).
hmReconnectCheck(c) ==
  /\ pc[c] = "hm_lock"
  /\ CanLock
  /\ LET existingNode == nodes[nodeID[c]]
         reconnect == nodeID[c] \in DOMAIN nodes /\ existingNode.Conn # c
     IN IF reconnect /\ existingNode.Conn = NoConn
        THEN /\ nodesMutex' = Locked(c)
             /\ Goto(c, "panicked")
             /\ UNCHANGED <<nodes, closed, sent>>
        ELSE /\ nodes' = IF reconnect THEN [nodes EXCEPT ![nodeID[c]].Conn = c] ELSE nodes
             /\ \/ /\ ~closed[c]
                   /\ Goto(c, "read")
                   /\ sent' = SendID(c)
                   /\ closed' = IF reconnect
                                THEN [closed EXCEPT ![existingNode.Conn] = TRUE]
                                ELSE closed
                \/ /\ Goto(c, "df_lock")
                   /\ UNCHANGED sent
                   /\ closed' = IF reconnect
                                THEN [closed EXCEPT ![existingNode.Conn] = TRUE, ![c] = TRUE]
                                ELSE [closed EXCEPT ![c] = TRUE]
             /\ UNCHANGED nodesMutex
  /\ UNCHANGED <<phonePosition, calibration, nodeID, nread, msg, validNodes,
                 position, input, requests, scope, solved, trial, response>>

\* Lines 177-181: conn.ReadMessage() returns an error (the connection was
\* closed, or the peer dropped it): break; the deferred function starts with
\* conn.Close() (line 149).
hmReadError(c) ==
  /\ pc[c] = "read"
  /\ closed' = [closed EXCEPT ![c] = TRUE]
  /\ Goto(c, "df_lock")
  /\ UNCHANGED <<nodes, nodesMutex, phonePosition, calibration, nodeID, nread,
                 msg, validNodes, position, input, requests, scope, solved, trial,
                 sent, response>>

\* Line 177: conn.ReadMessage() returns a frame.
hmReadMessage(c) ==
  /\ pc[c] = "read"
  /\ ~closed[c]
  /\ FramesRead < scope.frames
  /\ \E f \in scope.kinds : msg' = [msg EXCEPT ![c] = f]
  /\ nread' = [nread EXCEPT ![c] = @ + 1]
  /\ Goto(c, "ls_lock")
  /\ UNCHANGED <<nodes, nodesMutex, phonePosition, calibration, nodeID, closed,
                 validNodes, position, input, requests, scope, solved, trial,
                 sent, response>>

\* A switch that treats every other frame as a distance report.
DispatchDefaultsToDistance(m) ==
  CASE m.type = "position" -> "p_lock"
    [] OTHER -> "d_lock"

\* Where the switch on the decoded frame continues (lines 192-246).
Dispatch(m) ==
  CASE m.type = "distance" -> "d_lock"
    [] m.type = "position" -> "p_lock"
    [] OTHER -> "read"

\* Lines 184-188: nodesMutex.Lock(); node.LastSeen = time.Now(); Unlock();
\* then json.Unmarshal and the switch (lines 192-246). PING and REGISTER are
\* answered with conn.WriteMessage (lines 233-245); a failed write breaks the
\* loop and the deferred function starts with conn.Close().
hmLastSeen(c) ==
  /\ pc[c] = "ls_lock"
  /\ CanLock
  /\ nodes' = IF nodeID[c] \in DOMAIN nodes
              THEN [nodes EXCEPT ![nodeID[c]].LastSeen = Now(c)]
              ELSE nodes
  /\ \/ /\ msg[c].type \in {"PING", "REGISTER"} => ~closed[c]
        /\ Goto(c, Dispatch(msg[c]))
        /\ sent' = CASE msg[c].type = "PING" -> SendPONG(c)
                      [] msg[c].type = "REGISTER" -> SendID(c)
                      [] OTHER -> sent
        /\ UNCHANGED closed
     \/ /\ msg[c].type \in {"PING", "REGISTER"}
        /\ Goto(c, "df_lock")
        /\ closed' = [closed EXCEPT ![c] = TRUE]
        /\ UNCHANGED sent
  /\ UNCHANGED <<nodesMutex, phonePosition, calibration, nodeID, nread, msg,
                 validNodes, position, input, requests, scope, solved, trial, response>>

\* Lines 200-202: nodesMutex.Lock(); node.RSSI = msg.RSSI
hmDistanceRSSI(c) ==
  /\ pc[c] = "d_lock"
  /\ CanLock
  /\ nodesMutex' = Locked(c)
  /\ nodes' = IF nodeID[c] \in DOMAIN nodes
              THEN [nodes EXCEPT ![nodeID[c]].RSSI = msg[c].rssi]
              ELSE nodes
  /\ Goto(c, "d_dist")
  /\ UNCHANGED <<phonePosition, calibration, nodeID, closed, nread, msg,
                 validNodes, position, input, requests, scope, solved, trial,
                 sent, response>>

\* A report whose distance is dropped before the solve.
hmDistanceNotStored(c) ==
  /\ pc[c] = "d_dist"
  /\ nodesMutex' = Unlocked
  /\ Goto(c, "up_rlock")
  /\ UNCHANGED <<nodes, phonePosition, calibration, nodeID, closed, nread, msg,
                 validNodes, position, input, requests, scope, solved, trial,
                 sent, response>>

\* A store into the record the frame's node_id names.
hmDistanceByNodeID(c) ==
  /\ pc[c] = "d_dist"
  /\ nodes' = IF msg[c].node_id \in DOMAIN nodes
              THEN [nodes EXCEPT ![msg[c].node_id].Distance = msg[c].distance]
              ELSE nodes
  /\ nodesMutex' = Unlocked
  /\ Goto(c, "up_rlock")
  /\ UNCHANGED <<phonePosition, calibration, nodeID, closed, nread, msg,
                 validNodes, position, input, requests, scope, solved, trial,
                 sent, response>>

\* Lines 203-208: node.Distance = msg.Distance; nodesMutex.Unlock();
\* updatePhonePosition()
hmDistance(c) ==
  /\ pc[c] = "d_dist"
  /\ nodes' = IF nodeID[c] \in DOMAIN nodes
              THEN [nodes EXCEPT ![nodeID[c]].Distance = msg[c].distance]
              ELSE nodes
  /\ nodesMutex' = Unlocked
  /\ Goto(c, "up_rlock")
  /\ UNCHANGED <<phonePosition, calibration, nodeID, closed, nread, msg,
                 validNodes, position, input, requests, scope, solved, trial,
                 sent, response>>

\* Lines 218-220: nodesMutex.Lock(); node.Position = pos, first word (X).
hmPositionX(c) ==
  /\ pc[c] = "p_lock"
  /\ CanLock
  /\ nodesMutex' = Locked(c)
  /\ nodes' = IF nodeID[c] \in DOMAIN nodes
              THEN [nodes EXCEPT ![nodeID[c]].Position.X = msg[c].pos.X]
              ELSE nodes
  /\ Goto(c, "p_rest")
  /\ UNCHANGED <<phonePosition, calibration, nodeID, closed, nread, msg,
                 validNodes, position, input, requests, scope, solved, trial,
                 sent, response>>

\* A position report that goes on to a solve attempt.
hmPositionYZThenSolve(c) ==
  /\ pc[c] = "p_rest"
  /\ nodes' = IF nodeID[c] \in DOMAIN nodes
              THEN [nodes EXCEPT ![nodeID[c]].Position.Y = msg[c].pos.Y,
                                 ![nodeID[c]].Position.Z = msg[c].pos.Z]
              ELSE nodes
  /\ nodesMutex' = Unlocked
  /\ Goto(c, "up_rlock")
  /\ UNCHANGED <<phonePosition, calibration, nodeID, closed, nread, msg,
                 validNodes, position, input, requests, scope, solved, trial,
                 sent, response>>

\* Lines 220-224: node.Position = pos, the remaining words; nodesMutex.Unlock()
hmPositionYZ(c) ==
  /\ pc[c] = "p_rest"
  /\ nodes' = IF nodeID[c] \in DOMAIN nodes
              THEN [nodes EXCEPT ![nodeID[c]].Position.Y = msg[c].pos.Y,
                                 ![nodeID[c]].Position.Z = msg[c].pos.Z]
              ELSE nodes
  /\ nodesMutex' = Unlocked
  /\ Goto(c, "read")
  /\ UNCHANGED <<phonePosition, calibration, nodeID, closed, nread, msg,
                 validNodes, position, input, requests, scope, solved, trial,
                 sent, response>>

\* A cleanup that removes the record from the registry.
hmMarkDisconnectedDeletes(c) ==
  /\ pc[c] = "df_lock"
  /\ CanLock
  /\ nodes' = IF nodeID[c] \in DOMAIN nodes /\ nodes[nodeID[c]].Conn = c
              THEN [k \in DOMAIN nodes \ {nodeID[c]} |-> nodes[k]]
              ELSE nodes
  /\ Goto(c, "done")
  /\ UNCHANGED <<nodesMutex, phonePosition, calibration, nodeID, closed, nread,
                 msg, validNodes, position, input, requests, scope, solved, trial,
                 sent, response>>

\* A cleanup that clears the handle whichever connection it refers to.
hmMarkDisconnectedAlways(c) ==
  /\ pc[c] = "df_lock"
  /\ CanLock
  /\ nodes' = IF nodeID[c] \in DOMAIN nodes
              THEN [nodes EXCEPT ![nodeID[c]].Conn = NoConn]
              ELSE nodes
  /\ Goto(c, "done")
  /\ UNCHANGED <<nodesMutex, phonePosition, calibration, nodeID, closed, nread,
                 msg, validNodes, position, input, requests, scope, solved, trial,
                 sent, response>>

\* A cleanup that leaves the handle in place.
hmMarkDisconnectedKeeps(c) ==
  /\ pc[c] = "df_lock"
  /\ CanLock
  /\ Goto(c, "done")
  /\ UNCHANGED <<nodes, nodesMutex, phonePosition, calibration, nodeID, closed, nread,
                 msg, validNodes, position, input, requests, scope, solved, trial,
                 sent, response>>

\* Lines 154-160, the deferred function after conn.Close(): nodesMutex.Lock();
\* if node.Conn == conn { node.Conn = nil }; nodesMutex.Unlock()
hmMarkDisconnected(c) ==
  /\ pc[c] = "df_lock"
  /\ CanLock
  /\ nodes' = IF nodeID[c] \in DOMAIN nodes /\ nodes[nodeID[c]].Conn = c
              THEN [nodes EXCEPT ![nodeID[c]].Conn = NoConn]
              ELSE nodes
  /\ Goto(c, "done")
  /\ UNCHANGED <<nodesMutex, phonePosition, calibration, nodeID, closed, nread,
                 msg, validNodes, position, input, requests, scope, solved, trial,
                 sent, response>>

\* --------------------------------------- updatePhonePosition (lines 261-288)

\* The ids of the nodes the loop of lines 267-271 keeps.
ValidIds == {id \in DOMAIN nodes : nodes[id].Distance > 0}

\* A threshold of two nodes.
TooFewNodesBelowTwo(n) == n < 2

\* Line 273: len(validNodes) < 3
TooFewNodes(n) == n < 3

\* The orders `range nodes` may enumerate a set of ids in.
Orderings(S) ==
  {s \in [1..Cardinality(S) -> S] : \A i, j \in 1..Cardinality(S) : s[i] = s[j] => i = j}

\* trilateratePosition(validNodes, initialGuess) with initialGuess the origin.
Solve(ns) ==
  LET view == [i \in 1..Len(ns) |-> SolverView(ns[i])]
  IN IF view \in DOMAIN solved THEN solved[view]
     ELSE trilateratePosition(view, Origin)

\* Lines 262-276: nodesMutex.RLock(); collect validNodes; return when fewer than 3.
updatePhonePosition(c) ==
  /\ pc[c] = "up_rlock"
  /\ CanRLock
  /\ nodesMutex' = RLocked(c)
  /\ IF TooFewNodes(Cardinality(ValidIds))
     THEN /\ Goto(c, "up_return")
          /\ UNCHANGED validNodes
     ELSE /\ \E order \in Orderings(ValidIds) : validNodes' = [validNodes EXCEPT ![c] = order]
          /\ Goto(c, "up_solve")
  /\ UNCHANGED <<nodes, phonePosition, calibration, nodeID, closed, nread, msg,
                 position, input, requests, scope, solved, trial,
                 sent, response>>

\* Lines 280-287: position := trilateratePosition(validNodes, initialGuess);
\* phonePosition = position, first word (X).
upSolve(c) ==
  /\ pc[c] = "up_solve"
  /\ LET result == Solve([i \in 1..Len(validNodes[c]) |-> nodes[validNodes[c][i]]])
     IN /\ position' = [position EXCEPT ![c] = result]
        /\ phonePosition' = [phonePosition EXCEPT !.X = result.X]
  /\ Goto(c, "up_write")
  /\ UNCHANGED <<nodes, nodesMutex, calibration, nodeID, closed, nread, msg,
                 validNodes, input, requests, scope, solved, trial,
                 sent, response>>

\* A write that leaves the target's Y as it was.
upWriteKeepsY(c) ==
  /\ pc[c] = "up_write"
  /\ phonePosition' = [phonePosition EXCEPT !.Z = position[c].Z]
  /\ nodesMutex' = RUnlocked(c)
  /\ validNodes' = [validNodes EXCEPT ![c] = <<>>]
  /\ position' = [position EXCEPT ![c] = Origin]
  /\ Goto(c, "read")
  /\ UNCHANGED <<nodes, calibration, nodeID, closed, nread, msg, input, requests, scope, solved, trial,
                 sent, response>>

\* Line 287: phonePosition = position, the remaining words; deferred RUnlock.
upWrite(c) ==
  /\ pc[c] = "up_write"
  /\ phonePosition' = [phonePosition EXCEPT !.Y = position[c].Y, !.Z = position[c].Z]
  /\ nodesMutex' = RUnlocked(c)
  /\ validNodes' = [validNodes EXCEPT ![c] = <<>>]
  /\ position' = [position EXCEPT ![c] = Origin]
  /\ Goto(c, "read")
  /\ UNCHANGED <<nodes, calibration, nodeID, closed, nread, msg, input, requests, scope, solved, trial,
                 sent, response>>

\* Lines 273-276: the early return; deferred RUnlock.
upReturn(c) ==
  /\ pc[c] = "up_return"
  /\ nodesMutex' = RUnlocked(c)
  /\ Goto(c, "read")
  /\ UNCHANGED <<nodes, phonePosition, calibration, nodeID, closed, nread, msg,
                 validNodes, position, input, requests, scope, solved, trial,
                 sent, response>>

\* ------------------------------------------------------------ HTTP handlers

\* Lines 346-361 and 411-425: wrong method (405) or undecodable body (400):
\* the handler returns before it takes the mutex.
adminBadRequest ==
  /\ pc["admin"] = "idle"
  /\ "admin" \in scope.procs
  /\ requests < scope.requests
  /\ requests' = requests + 1
  /\ input' = NoInput
  /\ \E status \in {400, 405} : response' = status
  /\ UNCHANGED <<nodes, nodesMutex, phonePosition, calibration, pc, nodeID,
                 closed, nread, msg, validNodes, position, scope, solved, trial, sent>>

\* Lines 428-436: nodesMutex.Lock(); unknown id: Unlock and 404;
\* known id: node.Position = input.Position, first word (X).
setNodePositionHandler ==
  /\ pc["admin"] = "idle"
  /\ "admin" \in scope.procs
  /\ requests < scope.requests
  /\ CanLock
  /\ requests' = requests + 1
  /\ \E id \in AdminIds(scope.procs \cap Conns) :
       /\ input' = [Path |-> "/set-node-position", NodeID |-> id, Position |-> PosInput]
       /\ IF id \in DOMAIN nodes
          THEN /\ nodes' = [nodes EXCEPT ![id].Position.X = PosInput.X]
               /\ nodesMutex' = Locked("admin")
               /\ Goto("admin", "sp_rest")
               /\ UNCHANGED response
          ELSE /\ response' = 404
               /\ UNCHANGED <<nodes, nodesMutex, pc>>
  /\ UNCHANGED <<phonePosition, calibration, nodeID, closed, nread, msg,
                 validNodes, position, scope, solved, trial, sent>>

\* A handler that returns with the mutex still held.
setNodePositionYZKeepsLock ==
  /\ pc["admin"] = "sp_rest"
  /\ nodes' = [nodes EXCEPT ![input.NodeID].Position.Y = input.Position.Y,
                            ![input.NodeID].Position.Z = input.Position.Z]
  /\ response' = 200
  /\ Goto("admin", "idle")
  /\ UNCHANGED <<nodesMutex, phonePosition, calibration, nodeID, closed, nread, msg,
                 validNodes, position, input, requests, scope, solved, trial, sent>>

\* Lines 436-443: the remaining words of the position; nodesMutex.Unlock(); 200.
setNodePositionYZ ==
  /\ pc["admin"] = "sp_rest"
  /\ nodes' = [nodes EXCEPT ![input.NodeID].Position.Y = input.Position.Y,
                            ![input.NodeID].Position.Z = input.Position.Z]
  /\ nodesMutex' = Unlocked
  /\ response' = 200
  /\ Goto("admin", "idle")
  /\ UNCHANGED <<phonePosition, calibration, nodeID, closed, nread, msg,
                 validNodes, position, input, requests, scope, solved, trial, sent>>

\* A request that stores its pair as the default as well.
calibrationHandlerSetsDefault ==
  /\ pc["admin"] = "idle"
  /\ "admin" \in scope.procs
  /\ requests < scope.requests
  /\ CanLock
  /\ requests' = requests + 1
  /\ \E id \in AdminIds(scope.procs \cap Conns) \cup {DefaultKey} :
       /\ input' = [Path |-> "/calibrate", NodeID |-> id, Position |-> Origin]
       /\ calibration' = [k \in DOMAIN calibration \cup {id} |->
                            IF k \in {id, DefaultKey} THEN CalInput ELSE calibration[k]]
  /\ response' = 200
  /\ UNCHANGED <<nodes, nodesMutex, phonePosition, pc, nodeID, closed, nread,
                 msg, validNodes, position, scope, solved, trial, sent>>

\* Lines 364-375: nodesMutex.Lock(); calibration[input.NodeID] =
\* CalibrationParams{...}; nodesMutex.Unlock(); 200.
calibrationHandler ==
  /\ pc["admin"] = "idle"
  /\ "admin" \in scope.procs
  /\ requests < scope.requests
  /\ CanLock
  /\ requests' = requests + 1
  /\ \E id \in AdminIds(scope.procs \cap Conns) \cup {DefaultKey} :
       /\ input' = [Path |-> "/calibrate", NodeID |-> id, Position |-> Origin]
       /\ calibration' = [k \in DOMAIN calibration \cup {id} |->
                            IF k = id THEN CalInput ELSE calibration[k]]
  /\ response' = 200
  /\ UNCHANGED <<nodes, nodesMutex, phonePosition, pc, nodeID, closed, nread,
                 msg, validNodes, position, scope, solved, trial, sent>>

\* Lines 380-395: nodesMutex.RLock(); the snapshot is being read.
visualizationHandler ==
  /\ pc["viz"] = "idle"
  /\ "viz" \in scope.procs
  /\ CanRLock
  /\ nodesMutex' = RLocked("viz")
  /\ Goto("viz", "viz_read")
  /\ UNCHANGED <<nodes, phonePosition, calibration, nodeID, closed, nread, msg,
                 validNodes, position, input, requests, scope, solved, trial,
                 sent, response>>

\* Lines 397-407: the response is encoded; deferred RUnlock.
visualizationReturn ==
  /\ pc["viz"] = "viz_read"
  /\ nodesMutex' = RUnlocked("viz")
  /\ Goto("viz", "idle")
  /\ UNCHANGED <<nodes, phonePosition, calibration, nodeID, closed, nread, msg,
                 validNodes, position, input, requests, scope, solved, trial,
                 sent, response>>

\* Lines 448-464: nodesMutex.RLock(); the status of every node is being logged.
printNodesStatus ==
  /\ pc["status"] = "idle"
  /\ "status" \in scope.procs
  /\ CanRLock
  /\ nodesMutex' = RLocked("status")
  /\ Goto("status", "status_read")
  /\ UNCHANGED <<nodes, phonePosition, calibration, nodeID, closed, nread, msg,
                 validNodes, position, input, requests, scope, solved, trial,
                 sent, response>>

\* Lines 466-471: deferred RUnlock.
printNodesStatusReturn ==
  /\ pc["status"] = "status_read"
  /\ nodesMutex' = RUnlocked("status")
  /\ Goto("status", "idle")
  /\ UNCHANGED <<nodes, phonePosition, calibration, nodeID, closed, nread, msg,
                 validNodes, position, input, requests, scope, solved, trial,
                 sent, response>>

\* ------------------------------------------------------------ specification

Next ==
  \/ \E c \in Conns :
       \/ wsUpgradeError(c)
       \/ wsHandler(c)
       \/ hmReconnectCheck(c)
       \/ hmReadError(c)
       \/ hmReadMessage(c)
       \/ hmLastSeen(c)
       \/ hmDistanceRSSI(c)
       \/ hmDistance(c)
       \/ hmPositionX(c)
       \/ hmPositionYZ(c)
       \/ hmMarkDisconnected(c)
       \/ updatePhonePosition(c)
       \/ upSolve(c)
       \/ upWrite(c)
       \/ upReturn(c)
  \/ adminBadRequest
  \/ setNodePositionHandler
  \/ setNodePositionYZ
  \/ calibrationHandler
  \/ visualizationHandler
  \/ visualizationReturn
  \/ printNodesStatus
  \/ printNodesStatusReturn

Spec == Init /\ [][Next]_vars

\* ------------------------------------------- the solver and the signal model

\* The ids of the anchors of a solver trial.
TrialIds == <<tempID(RemoteAddr["c1"]), tempID(RemoteAddr["c3"]), tempID(RemoteAddr["c4"])>>

\* The registry holding the anchors of a solver trial, none of them connected.
TrialRegistry(anchors) ==
  [id \in {TrialIds[i] : i \in 1..Len(anchors)} |->
     LET i == CHOOSE i \in 1..Len(anchors) : TrialIds[i] = id
     IN [ID |-> id, Conn |-> NoConn, Position |-> anchors[i].Position,
         Distance |-> anchors[i].Distance, RSSI |-> -50, LastSeen |-> <<"c1", 0>>]]

\* The service with a registry and a target already in place, and one function
\* to try.
FnInit ==
  /\ trial \in SolveTrials \cup DistanceTrials
  /\ nodes = IF trial.fn = "solve" THEN TrialRegistry(trial.anchors) ELSE <<>>
  /\ phonePosition \in IF trial.fn = "solve" THEN {Origin, PosInput} ELSE {Origin}
  /\ nodesMutex = [writer |-> NoProc, readers |-> {}]
  /\ calibration = [id \in {DefaultKey} |-> DefaultParams]
  /\ pc = [p \in Procs |-> IF p \in Conns THEN "start" ELSE "idle"]
  /\ nodeID = [c \in Conns |-> NoId]
  /\ closed = [c \in Conns |-> FALSE]
  /\ nread = [c \in Conns |-> 0]
  /\ msg = [c \in Conns |-> NoMsg]
  /\ validNodes = [c \in Conns |-> <<>>]
  /\ position = [c \in Conns |-> Origin]
  /\ input = NoInput
  /\ requests = 0
  /\ scope = [procs |-> {}, kinds |-> {}, frames |-> 0, requests |-> 0]
  /\ solved = <<>>
  /\ sent = [c \in Conns |-> <<>>]
  /\ response = 0

\* Lines 261-288 run by one goroutine, nothing else running: validNodes in the
\* order the registry is enumerated in, trilateratePosition from the initial
\* guess (X: 0, Y: 0, Z: 0), phonePosition = position.
Attempt(order) ==
  LET ns == [i \in 1..Len(order) |-> SolverView(nodes[order[i]])]
      descent == Descent(ns, Origin)
  IN [done |-> TRUE, order |-> order, position |-> trilateratePosition(ns, Origin),
      passes |-> descent.passes, break |-> descent.break]

fnSolveFirst ==
  /\ trial.fn = "solve"
  /\ ~trial.first.done
  /\ ~TooFewNodes(Cardinality(ValidIds))
  /\ \E order \in Orderings(ValidIds) :
       /\ trial' = [trial EXCEPT !.first = Attempt(order)]
       /\ phonePosition' = trial'.first.position
  /\ UNCHANGED <<nodes, nodesMutex, calibration, pc, nodeID, closed, nread, msg,
                 validNodes, position, input, requests, scope, solved, sent, response>>

fnSolveSecond ==
  /\ trial.fn = "solve"
  /\ trial.first.done
  /\ ~trial.second.done
  /\ ~TooFewNodes(Cardinality(ValidIds))
  /\ \E order \in Orderings(ValidIds) :
       /\ trial' = [trial EXCEPT !.second = Attempt(order)]
       /\ phonePosition' = trial'.second.position
  /\ UNCHANGED <<nodes, nodesMutex, calibration, pc, nodeID, closed, nread, msg,
                 validNodes, position, input, requests, scope, solved, sent, response>>

\* Lines 363-369: POST /calibrate stores the pair it was given.
fnCalibrate ==
  /\ trial.fn = "distance"
  /\ TrialIds[1] \notin DOMAIN calibration
  /\ calibration' = [k \in DOMAIN calibration \cup {TrialIds[1]} |->
                       IF k = TrialIds[1] THEN trial.params ELSE calibration[k]]
  /\ input' = [Path |-> "/calibrate", NodeID |-> TrialIds[1], Position |-> Origin]
  /\ response' = 200
  /\ UNCHANGED <<nodes, nodesMutex, phonePosition, pc, nodeID, closed, nread, msg,
                 validNodes, position, requests, scope, solved, trial, sent>>

\* calculateDistanceFromRSSI for the anchor at trial.rssi and at 1 dBm more.
fnDistance ==
  /\ trial.fn = "distance"
  /\ TrialIds[1] \in DOMAIN calibration
  /\ trial.distances = <<>>
  /\ trial' = [trial EXCEPT !.distances =
                 <<calculateDistanceFromRSSI(calibration, trial.rssi, TrialIds[1]),
                   calculateDistanceFromRSSI(calibration, trial.rssi + 1, TrialIds[1])>>]
  /\ UNCHANGED <<nodes, nodesMutex, phonePosition, calibration, pc, nodeID, closed,
                 nread, msg, validNodes, position, input, requests, scope, solved,
                 sent, response>>

FnNext ==
  \/ fnSolveFirst
  \/ fnSolveSecond
  \/ fnCalibrate
  \/ fnDistance

FnSpec == FnInit /\ [][FnNext]_vars

\* ------------------------------------------------------------------ claims

\* A connection has been registered: wsHandler stored its record.
Registered(c) == nodeID[c] # NoId

\* Where a handler is once registration is complete and before it leaves the
\* read loop.
Serving ==
  {"read", "ls_lock", "d_lock", "d_dist", "up_rlock", "up_solve", "up_write",
   "up_return", "p_lock", "p_rest"}

\* C1: when a connection registers under an id whose record is disconnected
\* (the anchor reconnects), the record keeps the position it held before.
C1_PositionSurvivesReconnect ==
  [][\A c \in Conns :
       LET id == tempID(RemoteAddr[c])
       IN (/\ pc[c] = "start"
           /\ pc'[c] = "hm_lock"
           /\ id \in DOMAIN nodes
           /\ nodes[id].Conn = NoConn)
          => nodes'[id].Position = nodes[id].Position]_vars

\* C2: no step of a connection handler (registration, the reconnect check,
\* the read loop, the disconnect cleanup) changes the calibration table, so the
\* pair stored for an id is the same after a disconnect and a reconnect.
C2_CalibrationSurvivesReconnect ==
  [][\A c \in Conns : pc'[c] # pc[c] => calibration' = calibration]_vars

\* C2 witness: a pair is stored for an id, the first connection of the device is
\* over and a later connection of the same device is registered and serving.
C2_Witness ==
  \E c, d \in Conns :
    /\ c # d
    /\ Device[c] = Device[d]
    /\ pc[c] = "done"
    /\ Registered(c)
    /\ pc[d] = "read"
    /\ nodes[nodeID[d]].Conn = d
    /\ nodeID[d] \in DOMAIN calibration
    /\ calibration[nodeID[d]] = CalInput

\* C3: two registered connections of one device have the same id, and the
\* registry holds exactly one record with that id.
C3_SameDeviceSameRecord ==
  \A c, d \in Conns :
    (Registered(c) /\ Registered(d) /\ Device[c] = Device[d])
    => /\ nodeID[c] = nodeID[d]
       /\ Cardinality({k \in DOMAIN nodes : nodes[k].ID = nodeID[c]}) = 1

\* C3 witness: two connections of one device are both registered.
C3_Witness ==
  \E c, d \in Conns :
    c # d /\ Device[c] = Device[d] /\ Registered(c) /\ Registered(d)

\* C4: registered connections of distinct devices have distinct ids and
\* distinct records, and registered connections of one device have one id.
C4_IdsUniquePerDevice ==
  \A c, d \in Conns :
    (Registered(c) /\ Registered(d))
    => /\ nodeID[c] \in DOMAIN nodes
       /\ nodes[nodeID[c]].ID = nodeID[c]
       /\ (Device[c] = Device[d]) <=> (nodeID[c] = nodeID[d])

\* C4 witness: three distinct devices are registered, one of them already
\* disconnected.
C4_Witness ==
  /\ \A c \in {"c1", "c3", "c4"} : Registered(c)
  /\ \E c \in {"c1", "c3", "c4"} : pc[c] = "done"

\* C5: an attempt that finds fewer than 3 nodes with a positive distance goes
\* to the early return; the target does not change while an attempt is at the
\* early return; and the target changes only in a step of an attempt that is
\* past the threshold.
C5_NoSolveBelowThree ==
  [][/\ \A c \in Conns :
          /\ (pc[c] = "up_rlock" /\ pc'[c] # "up_rlock" /\ Cardinality(ValidIds) < 3)
             => (pc'[c] = "up_return" /\ phonePosition' = phonePosition)
          /\ pc[c] = "up_return" => phonePosition' = phonePosition
     /\ phonePosition' # phonePosition
        => \E c \in Conns :
             /\ pc[c] \in {"up_solve", "up_write"}
             /\ pc'[c] # pc[c]
             /\ Len(validNodes[c]) >= 3]_vars

\* C5 witness: an attempt is at the early return with one or two eligible
\* nodes, and the target is at the origin.
C5_Witness ==
  \E c \in Conns :
    /\ pc[c] = "up_return"
    /\ Cardinality(ValidIds) \in {1, 2}
    /\ phonePosition = Origin

\* C6: every node handed to the solver has a positive distance and is
\* connected (its distance is not left over from a connection that ended).
C6_SolverInputsCurrent ==
  \A c \in Conns :
    pc[c] = "up_solve"
    => \A i \in 1..Len(validNodes[c]) :
         /\ nodes[validNodes[c][i]].Distance > 0
         /\ nodes[validNodes[c][i]].Conn # NoConn

\* C7: a step that changes the registry, the target position or the
\* calibration table is taken while nobody holds the mutex in shared mode.
C7_WritesExclusive ==
  [][(nodes' # nodes \/ phonePosition' # phonePosition \/ calibration' # calibration)
     => (nodesMutex.readers = {} /\ nodesMutex'.readers = {})]_vars

\* C8: while a reader holds the mutex, the RSSI and distance of every record
\* come from one report (or are the initial zeros) and its position is a whole
\* position that was written (or the initial origin).
C8_NoTornRecord ==
  nodesMutex.readers # {}
  => \A id \in DOMAIN nodes :
       /\ <<nodes[id].RSSI, nodes[id].Distance>>
            \in {<<0, 0>>} \cup {<<f.rssi, f.distance>> : f \in Reports}
       /\ nodes[id].Position \in {Origin, PosInput}

\* C8 witness: a reader holds the mutex, a record holds a report and a
\* reported position, and a handler is waiting to write a distance report.
C8_Witness ==
  /\ nodesMutex.readers # {}
  /\ \E id \in DOMAIN nodes : nodes[id].Distance > 0 /\ nodes[id].Position = PosInput
  /\ \E c \in Conns : pc[c] = "d_lock"

C10_LastRegistrationWins ==
  \A c, d \in Conns :
    (c # d /\ Device[c] = Device[d] /\ pc[c] \in Serving /\ pc[d] \in Serving)
    => /\ closed[c] # closed[d]
       /\ nodes[nodeID[c]].Conn \in {c, d}
       /\ ~closed[nodes[nodeID[c]].Conn]

\* The record of connection c's anchor.
Record(c) == nodes[nodeID[c]]

\* The pair a calibration frame reports.
CalReport == [RSSIAt1m |-> -65 * Scale, PathLoss |-> 4 * Scale]

\* C11: the mutex is never held, exclusively or shared, by a handler that has
\* returned or aborted.
C11_NoLockLeftHeld ==
  /\ nodesMutex.writer \in Conns => pc[nodesMutex.writer] \notin {"done", "panicked"}
  /\ \A p \in nodesMutex.readers \cap Conns : pc[p] \notin {"done", "panicked"}

\* C12: when the read loop of a connection ends the transport is closed and
\* the registry is untouched; the cleanup of the connection that the record
\* refers to clears Conn and changes nothing else: the record stays, with its
\* position, distance and RSSI.
C12_DisconnectKeepsRecord ==
  [][\A c \in Conns :
       /\ (pc[c] = "read" /\ pc'[c] = "df_lock") => (closed'[c] /\ nodes' = nodes)
       /\ (pc[c] = "df_lock" /\ pc'[c] = "done")
          => /\ closed[c]
             /\ DOMAIN nodes' = DOMAIN nodes
             /\ nodes' = IF Record(c).Conn = c
                         THEN [nodes EXCEPT ![nodeID[c]].Conn = NoConn]
                         ELSE nodes]_vars

\* C12 witness: a connection that reported a distance and a position is over,
\* and its record is disconnected and still holds both.
C12_Witness ==
  \E c \in Conns :
    /\ pc[c] = "done"
    /\ closed[c]
    /\ nodeID[c] \in DOMAIN nodes
    /\ Record(c).Conn = NoConn
    /\ Record(c).Distance > 0
    /\ Record(c).Position = PosInput

\* C13 as stated: handling a frame that is neither a structured message nor a
\* legacy control frame changes no record (LastSeen included).
C13_MalformedChangesNothing ==
  [][\A c \in Conns :
       (pc[c] = "ls_lock" /\ pc'[c] # "ls_lock" /\ msg[c].type = "text")
       => nodes' = nodes]_vars

\* C13 amended: handling such a frame refreshes LastSeen of the connection's
\* record and changes nothing else: no other field, no other record, not the
\* target position, not the calibration table; the connection is not closed
\* and the handler goes back to reading.
C13_MalformedOnlyRefreshesLastSeen ==
  [][\A c \in Conns :
       (pc[c] = "ls_lock" /\ pc'[c] # "ls_lock" /\ msg[c].type = "text")
       => /\ nodes' = [nodes EXCEPT ![nodeID[c]].LastSeen = Now(c)]
          /\ nodes'[nodeID[c]].LastSeen # nodes[nodeID[c]].LastSeen
          /\ phonePosition' = phonePosition
          /\ calibration' = calibration
          /\ closed' = closed
          /\ pc'[c] = "read"]_vars

\* C13 witness: a handler is back at reading after a frame that is neither
\* JSON nor a legacy frame, its connection is open and LastSeen of its record
\* is the time of that frame.
C13_Witness ==
  \E c \in Conns :
    /\ pc[c] = "read"
    /\ msg[c].type = "text"
    /\ ~closed[c]
    /\ Record(c).LastSeen = Now(c)

\* C14: a connection from which a frame was read was sent the identity frame
\* first, and a handler that ends without having sent it has read nothing,
\* changed no field of the record, and its connection is closed.
C14_IdentityBeforeReports ==
  \A c \in Conns :
    /\ nread[c] > 0 => (Len(sent[c]) > 0 /\ sent[c][1] = IDFrame(nodeID[c]))
    /\ pc[c] \in Serving => (Len(sent[c]) > 0 /\ sent[c][1] = IDFrame(nodeID[c]))
    /\ (pc[c] \in {"df_lock", "done"} /\ Registered(c) /\ sent[c] = <<>>)
       => (nread[c] = 0 /\ closed[c] /\ msg[c] = NoMsg)

\* C14 witness: one handler has processed a report after sending the identity
\* frame, and another ended because sending it failed.
C14_Witness ==
  /\ \E c \in Conns : nread[c] > 0 /\ sent[c] = <<IDFrame(nodeID[c])>> /\ pc[c] = "read"
  /\ \E c \in Conns : pc[c] = "done" /\ Registered(c) /\ sent[c] = <<>>

\* What the solver is given when it runs on validNodes of handler c.
SolverInput(c) == [i \in 1..Len(validNodes[c]) |-> nodes[validNodes[c][i]]]

C16_DistanceDerivedFromRSSI ==
  \A c \in Conns :
    (/\ pc[c] = "read"
     /\ msg[c].type \in {"distance", "rssi_report"}
     /\ msg[c].rssi # 0
     /\ msg[c].distance = 0
     /\ Record(c).Conn = c)
    => (Record(c).RSSI = msg[c].rssi /\ Record(c).Distance > 0)

\* C17: once a calibration frame has been handled, the calibration table holds
\* the reported pair for the connection's id.
C17_CalibrationFrameApplied ==
  \A c \in Conns :
    (pc[c] = "read" /\ msg[c].type = "calibration")
    => (nodeID[c] \in DOMAIN calibration /\ calibration[nodeID[c]] = CalReport)

\* C18: an administrative request that names an id absent from the registry is
\* answered 404 and changes neither the registry nor the calibration table
\* nor the target position.
C18_UnknownIdNotFound ==
  [][(/\ requests' = requests + 1
      /\ input'.Path # "none"
      /\ input'.NodeID \notin DOMAIN nodes)
     => (/\ response' = 404
         /\ nodes' = nodes
         /\ calibration' = calibration
         /\ phonePosition' = phonePosition)]_vars

\* C19: POST /set-node-position for an id in the registry writes the given
\* position into that record, and only that, in two steps under the mutex,
\* answers 200 and releases the mutex; for an id not in the registry it
\* answers 404, changes nothing and leaves the mutex free.
C19_SetNodePosition ==
  [][/\ (requests' = requests + 1 /\ input'.Path = "/set-node-position")
        => /\ calibration' = calibration
           /\ phonePosition' = phonePosition
           /\ IF input'.NodeID \in DOMAIN nodes
              THEN /\ pc'["admin"] = "sp_rest"
                   /\ nodes' = [nodes EXCEPT ![input'.NodeID].Position.X = input'.Position.X]
              ELSE /\ response' = 404
                   /\ nodes' = nodes
                   /\ nodesMutex' = nodesMutex
                   /\ nodesMutex.writer = NoProc
                   /\ pc'["admin"] = "idle"
     /\ (pc["admin"] = "sp_rest" /\ pc'["admin"] # "sp_rest")
        => /\ response' = 200
           /\ pc'["admin"] = "idle"
           /\ nodes' = [nodes EXCEPT ![input.NodeID].Position = input.Position]
           /\ nodes'[input.NodeID].Position = input.Position
           /\ calibration' = calibration
           /\ phonePosition' = phonePosition
           /\ nodesMutex'.writer = NoProc]_vars

\* C19 witness: a request for a registered id was answered 200, the record
\* holds the given position and the mutex is free.
C19_Witness ==
  /\ pc["admin"] = "idle"
  /\ input.Path = "/set-node-position"
  /\ response = 200
  /\ input.NodeID \in DOMAIN nodes
  /\ nodes[input.NodeID].Position = PosInput
  /\ nodesMutex.writer = NoProc

\* C20: handling a position frame writes the reported position into the
\* record of the connection, in two steps under the mutex, and changes nothing
\* else: no other record, no distance or RSSI, not the calibration table, not
\* the target position; the handler goes back to reading (no solve attempt).
C20_PositionFrame ==
  [][\A c \in Conns :
       /\ (pc[c] = "p_lock" /\ pc'[c] # "p_lock")
          => /\ msg[c].type = "position"
             /\ pc'[c] = "p_rest"
             /\ nodes' = [nodes EXCEPT ![nodeID[c]].Position.X = msg[c].pos.X]
             /\ phonePosition' = phonePosition
             /\ calibration' = calibration
       /\ (pc[c] = "p_rest" /\ pc'[c] # "p_rest")
          => /\ pc'[c] = "read"
             /\ nodes' = [nodes EXCEPT ![nodeID[c]].Position = msg[c].pos]
             /\ nodes'[nodeID[c]].Position = msg[c].pos
             /\ phonePosition' = phonePosition
             /\ calibration' = calibration
             /\ nodesMutex'.writer = NoProc]_vars

\* C20 witness: a position frame was handled to the end on a connection whose
\* record already held a distance: the record holds the position and still
\* holds the distance.
C20_Witness ==
  \E c \in Conns :
    /\ pc[c] = "read"
    /\ msg[c].type = "position"
    /\ Record(c).Conn = c
    /\ Record(c).Position = msg[c].pos
    /\ Record(c).Distance > 0


\* C21: the step that handles a PING frame either writes exactly one PONG to
\* the connection that sent it and goes back to reading, or, the write having
\* failed, writes nothing and closes that connection; the step that handles a
\* REGISTER frame does the same with an ID frame, which is the frame the
\* connection was sent first; no other connection is written to.
C21_ControlFramesAnswered ==
  [][\A c \in Conns :
       (pc[c] = "ls_lock" /\ pc'[c] # "ls_lock" /\ msg[c].type \in {"PING", "REGISTER"})
       => /\ \A d \in Conns \ {c} : sent'[d] = sent[d]
          /\ \/ /\ pc'[c] = "read"
                /\ closed'[c] = closed[c]
                /\ msg[c].type = "PING" => sent'[c] = Append(sent[c], PONGFrame)
                /\ msg[c].type = "REGISTER"
                   => /\ sent'[c] = Append(sent[c], IDFrame(nodeID[c]))
                      /\ sent'[c][Len(sent'[c])] = sent[c][1]
             \/ /\ pc'[c] = "df_lock"
                /\ closed'[c]
                /\ sent'[c] = sent[c]]_vars

\* C21 witness: a connection has been answered PONG after its identity frame
\* and is reading again.
C21_Witness ==
  \E c \in Conns :
    /\ pc[c] = "read"
    /\ ~closed[c]
    /\ msg[c].type = "PING"
    /\ sent[c] = <<IDFrame(nodeID[c]), PONGFrame>>

\* The attempts of the solver trial that have been made.
Attempts == {a \in {trial.first, trial.second} : a.done}

\* 0.01 units.
Tolerance == Scale \div 100

\* p is within 0.01 units of q.
Within(p, q) ==
  (p.X - q.X) * (p.X - q.X) + (p.Y - q.Y) * (p.Y - q.Y) + (p.Z - q.Z) * (p.Z - q.Z)
    <= Tolerance * Tolerance

C23_DistancePositiveDecreasing ==
  trial.distances # <<>>
  => /\ IsPositive(trial.distances[1])
     /\ IsPositive(trial.distances[2])
     /\ IsLess(trial.distances[2], trial.distances[1])

\* C24 as stated: two solve attempts over the same eligible anchors leave the
\* same target position, whatever order each enumerated the anchors in and
\* whatever the target was before.
C24_SolveDeterministic ==
  (trial.first.done /\ trial.second.done)
  => trial.first.position = trial.second.position

\* C25: an anchor whose position is the candidate contributes a zero gradient
\* term, and a solve over anchors that all sit at the origin breaks out of its
\* first pass and leaves the target at the origin.
C25_CoincidentAnchorSkipped ==
  /\ \A i \in 1..Len(trial.anchors) :
       NodeGradient(trial.anchors[i], trial.anchors[i].Position) = Origin
  /\ (\A i \in 1..Len(trial.anchors) : trial.anchors[i].Position = Origin)
     => \A a \in Attempts :
          a.passes = 1 /\ a.break /\ a.position = Origin /\ phonePosition = Origin

\* C25 witness: three anchors at the origin, each reporting a positive
\* distance, have been solved twice.
C25_Witness ==
  /\ trial.fn = "solve"
  /\ \A i \in 1..Len(trial.anchors) :
       trial.anchors[i].Position = Origin /\ trial.anchors[i].Distance > 0
  /\ trial.first.done
  /\ trial.second.done

\* C26 as stated: the stored RSSI and distance of an id are those of the last
\* distance report processed for it: a record starts with zeros when its id
\* enters the registry, and afterwards its RSSI changes only in the step of a
\* handler of that id that stores a report's RSSI, and its distance only in
\* the step that stores the report's distance.
C26_LastReportWins ==
  [][\A id \in DOMAIN nodes' :
       IF id \notin DOMAIN nodes
       THEN nodes'[id].RSSI = 0 /\ nodes'[id].Distance = 0
       ELSE /\ nodes'[id].RSSI # nodes[id].RSSI
               => \E c \in Conns :
                    /\ nodeID[c] = id /\ pc[c] = "d_lock" /\ pc'[c] = "d_dist"
                    /\ nodes'[id].RSSI = msg[c].rssi
            /\ nodes'[id].Distance # nodes[id].Distance
               => \E c \in Conns :
                    /\ nodeID[c] = id /\ pc[c] = "d_dist" /\ pc'[c] = "up_rlock"
                    /\ nodes'[id].Distance = msg[c].distance]_vars

\* C27: when the handler of a connection that is not the record's handle
\* finishes, the registry is left as it was: the record keeps the handle it
\* had.
C27_SupersededCloseKeepsHandle ==
  [][\A c \in Conns :
       (/\ pc[c] = "df_lock" /\ pc'[c] = "done"
        /\ nodeID[c] \in DOMAIN nodes
        /\ Record(c).Conn # c)
       => nodes' = nodes]_vars

\* C27 witness: a handler has finished while its record referred to another
\* connection, and the record still refers to it.
C27_Witness ==
  \E c \in Conns :
    /\ pc[c] = "done"
    /\ Registered(c)
    /\ Record(c).Conn \in Conns \ {c}
    /\ pc[Record(c).Conn] \in Serving

\* The handlers started for an id, and where a handler is once it has ended.
HandlersOf(id) == {c \in Conns : nodeID[c] = id}
Ended == {"done", "panicked"}

\* C28: when every handler started for an id has ended, the id's record has
\* no connection handle.
C28_AllEndedMeansDisconnected ==
  \A id \in DOMAIN nodes :
    (\A c \in HandlersOf(id) : pc[c] \in Ended) => nodes[id].Conn = NoConn

\* C28 witness: two handlers of one id, both of which served their
\* connection, have ended and the record has no handle.
C28_Witness ==
  \E c, d \in Conns :
    /\ c # d
    /\ Registered(c)
    /\ nodeID[c] = nodeID[d]
    /\ pc[c] = "done" /\ pc[d] = "done"
    /\ sent[c] # <<>> /\ sent[d] # <<>>
    /\ nodes[nodeID[c]].Conn = NoConn

\* The target is the solver's output on the registry's eligible nodes, at
\* least 3 of them, in one of the orders they may be enumerated in.
Consistent ==
  /\ ~TooFewNodes(Cardinality(ValidIds))
  /\ \E order \in Orderings(ValidIds) :
       phonePosition = Solve([i \in 1..Len(order) |-> nodes[order[i]]])

\* What a solve reads of the registry.
SolverRegistry == [id \in DOMAIN nodes |-> SolverView(nodes[id])]

\* A handler is between storing a distance report and the end of its solve
\* attempt.
Solving == {c \in Conns : pc[c] \in {"up_rlock", "up_solve", "up_write", "up_return"}}

\* C29: the write that ends a solve attempt leaves the target at the solver's
\* output on the eligible nodes the registry holds at that moment, and from
\* then on the target stays at the solver's output on the registry's eligible
\* nodes for as long as no node's position or distance and no record changes:
\* no solve that read an earlier registry writes the target afterwards.
C29_QuiescentConsistency ==
  [][/\ \A c \in Conns :
          (pc[c] = "up_write" /\ pc'[c] # "up_write") => Consistent'
     /\ (Consistent /\ SolverRegistry' = SolverRegistry) => Consistent']_vars

\* C29 witness: no handler is solving, the last frame of some handler was a
\* distance report that left three nodes eligible, and the target is the
\* solver's output for them, away from the origin.
C29_Witness ==
  /\ Solving = {}
  /\ \E c \in Conns :
       pc[c] = "read" /\ msg[c].type = "distance" /\ Record(c).Distance = msg[c].distance
  /\ Consistent
  /\ phonePosition # Origin

\* The target values a solve can leave, and the value the target starts with.
CompleteTargets == {Origin} \cup {solved[v] : v \in DOMAIN solved}

\* C30 as stated: while the visualization snapshot is being read the target is
\* the origin or the complete output of one solve.
C30_SnapshotNotTorn ==
  pc["viz"] = "viz_read" => phonePosition \in CompleteTargets

\* Where a handler is while it processes the frame it read.
Handling == {"ls_lock", "d_lock", "d_dist", "p_lock", "p_rest"}

\* C31: a step in which a handler processes a frame leaves every record but
\* the one under the handler's own id as it was and adds no record, whatever
\* node_id the frame carries; the step that stores a report's distance stores
\* it in the record under the handler's id.
C31_OnlyOwnRecord ==
  [][\A c \in Conns :
       (pc[c] \in Handling /\ pc'[c] # pc[c])
       => /\ DOMAIN nodes' = DOMAIN nodes
          /\ \A id \in DOMAIN nodes \ {nodeID[c]} : nodes'[id] = nodes[id]
          /\ pc[c] = "d_dist" => nodes'[nodeID[c]].Distance = msg[c].distance]_vars

\* C31 witness: a handler has stored a report that names another registered
\* id; its own record holds the report and the named record holds none.
C31_Witness ==
  \E c \in Conns :
    /\ pc[c] = "read"
    /\ msg[c].type = "distance"
    /\ msg[c].node_id \in DOMAIN nodes \ {nodeID[c]}
    /\ Record(c).Distance = msg[c].distance
    /\ Record(c).RSSI = msg[c].rssi
    /\ nodes[msg[c].node_id].Distance = 0

\* C32 as stated: the pair under "default", which calculateDistanceFromRSSI
\* falls back to, is the initial one whatever requests were served.
C32_DefaultNeverChanges ==
  /\ DefaultKey \in DOMAIN calibration
  /\ calibration[DefaultKey] = DefaultParams

\* C32, amended: the table always has a pair under "default", and that pair
\* changes only in the step that serves a /calibrate request whose node_id is
\* "default", which replaces it with the pair posted; a request for any other
\* id leaves it as it was.
C32_DefaultChangesOnlyByName ==
  [][/\ DefaultKey \in DOMAIN calibration'
     /\ calibration'[DefaultKey] # calibration[DefaultKey]
        => /\ requests' = requests + 1
           /\ input'.Path = "/calibrate"
           /\ input'.NodeID = DefaultKey
           /\ calibration'[DefaultKey] = CalInput]_vars

\* C32 witness: a /calibrate request for a registered anchor has been served;
\* the anchor has the pair posted and the default is the initial one.
C32_Witness ==
  /\ input.Path = "/calibrate"
  /\ input.NodeID \in DOMAIN nodes
  /\ calibration[input.NodeID] = CalInput
  /\ calibration[DefaultKey] = DefaultParams

====
